---- MODULE Spec2Model ----
(***************************************************************************)
(* Symphony (src/src/symphony.ts) with its default JsonReporter            *)
(* (src/src/reporters/json-reporter.ts), driven by the page events of the  *)
(* browser-automation engine.                                              *)
(*                                                                         *)
(* The environment is a test worker: tests run one after the other, each   *)
(* on its own page, which is closed when the test ends.  A page issues     *)
(* requests; a request object keeps its url, method and timing().startTime *)
(* for its whole life and gets at most one response, after its request     *)
(* event.  Events of a page reach Symphony only if enable() registered its *)
(* listeners on that page.                                                 *)
(*                                                                         *)
(* Spec starts with the module loaded (the singleton built with the        *)
(* default config and the JsonReporter); SetupSpec starts before the load  *)
(* and lets a test ask for the instance with a config and register an      *)
(* HtmlReporter; SummarySpec applies getSummary to drawn collections;      *)
(* RollupSpec follows one test that sets the test name freely.             *)
(***************************************************************************)
EXTENDS Integers, Sequences, FiniteSets

\* ---- bounds of the model ------------------------------------------------
MaxRequests == 2          \* requests the environment issues in one run
MaxPages == 2             \* pages (tests) of one run
MaxCalls == 2             \* onTestComplete invocations counted per test: 2 is "2 or more"

\* the requests a page issues: one url fetched with two methods, and a
\* second url
Targets == {[url |-> "a", method |-> "GET"], [url |-> "a", method |-> "POST"],
            [url |-> "b", method |-> "GET"]}
Statuses == {200, 404}
Pages == 1..MaxPages
\* the title of the test that runs on page p
TestTitle(p) == IF p = 1 THEN "t1" ELSE IF p = 2 THEN "t2" ELSE "t3"
\* timing().startTime of a request
StartTimes == {1, 2}
\* timing().responseEnd at the response event: not after the earliest start,
\* or after the latest one
EndTimes == {1, 3}

\* ---- program constants --------------------------------------------------
\* JavaScript's Infinity: larger than every duration of the model.
Infinity == 1000000

NoPage == 0
UnknownTest == "unknown-test"
\* the running test has not called enable()
NoCall == "no-call"

\* the arrays the program allocates, named by allocation site
CtorArray == "symphony.metrics"          \* symphony.ts:18
ReporterArray == "reporter.currentMetrics"  \* json-reporter.ts:12
EnableArray == "enable.metrics"          \* symphony.ts:67
HtmlArray == "htmlReporter.currentMetrics"  \* html-reporter.ts:20
ArrayIds == {CtorArray, ReporterArray, EnableArray, HtmlArray}

\* the enabled option of a config argument: <<>> when the argument or the
\* option is absent
Configs == {<<>>, <<FALSE>>}

VARIABLES
  instance,         \* Symphony.instance is set
  config,           \* Symphony.config (its enabled option)
  configArg,        \* the enabled option the last getInstance(config) call asked for
  reporter,         \* the class of Symphony.reporter
  htmlSessionDir,   \* HtmlReporter.sessionDir is set
  htmlCurrentMetrics, \* HtmlReporter.currentMetrics: the array it refers to
  enabled,          \* Symphony.enabled
  metrics,          \* Symphony.metrics: the array it refers to
  arrays,           \* the contents of the arrays (sequences of records)
  currentTestName,  \* Symphony.currentTestName
  page,             \* Symphony.page
  listeners,        \* pages on which enable() registered the handlers
  openPage,         \* the page of the running test (MaxPages + 1: run over)
  inflight,         \* request objects whose response is still to come
  nextReq,          \* number of requests issued so far
  reporterTestName, \* JsonReporter.currentTestName
  currentMetrics,   \* JsonReporter.currentMetrics: the array it refers to
  sessionDir,       \* JsonReporter.sessionDir is set
  sessionMetrics,   \* JsonReporter.sessionMetrics, in insertion order
  sessionSummary,   \* the object generateSessionSummary last built (<<>> or <<s>>)
  summary,          \* what getSummary() returned, if the last step called it
  lastOp,           \* the operation the last step performed
  stored,           \* what the last step did to sessionMetrics
  onTestCompleteCalls, \* reporter.onTestComplete invocations of the running test
  enableCall,       \* testName argument of the first enable() call of the running test
  staleRequests     \* requests in flight that started before a clearMetrics()

vars == <<instance, config, configArg, reporter, htmlSessionDir,
          htmlCurrentMetrics, enabled, metrics, arrays, currentTestName, page, listeners, openPage,
          inflight, nextReq, reporterTestName, currentMetrics, sessionDir,
          sessionMetrics, sessionSummary, summary, lastOp, stored,
          onTestCompleteCalls, enableCall, staleRequests>>

\* ---- JavaScript helpers -------------------------------------------------
EmptyMap == [k \in {} |-> 0]

MathMin(a, b) == IF a < b THEN a ELSE b
MathMax(a, b) == IF a > b THEN a ELSE b

\* a rounding that truncates
MathFloor(num, den) == num \div den

\* Math.round(num / den) for den > 0: nearest integer, halves up
MathRound(num, den) == (2 * num + den) \div (2 * den)

\* the property key an object uses for a numeric status code
PropertyKey(n) == CASE n = 200 -> "200" [] n = 404 -> "404" [] OTHER -> "0"

\* parseInt of such a key
parseInt(s) == CASE s = "200" -> 200 [] s = "404" -> 404 [] OTHER -> 0

\* map[k] = (map[k] || 0) + n
AddCount(map, k, n) ==
  [x \in (DOMAIN map) \cup {k} |->
     IF x = k THEN (IF k \in DOMAIN map THEN map[k] ELSE 0) + n ELSE map[x]]

\* ---- Symphony -----------------------------------------------------------
Metrics == arrays[metrics]

\* the record trackRequestStart pushes for a request object
NewMetric(req) ==
  [id |-> req.id, url |-> req.url, method |-> req.method,
   startTime |-> req.startTime, endTime |-> 0, duration |-> 0,
   status |-> 0]

\* a lookup that compares the url only
FindMetricByUrl(ms, req) ==
  LET hits == {i \in 1..Len(ms) : ms[i].url = req.url}
  IN IF hits = {} THEN 0 ELSE CHOOSE i \in hits : \A j \in hits : i <= j

\* Array.prototype.find with the predicate of trackRequestEnd: the index of
\* the first record with the url and method of the request, 0 if none
FindMetric(ms, req) ==
  LET hits == {i \in 1..Len(ms) : ms[i].url = req.url /\ ms[i].method = req.method}
  IN IF hits = {} THEN 0 ELSE CHOOSE i \in hits : \A j \in hits : i <= j

\* the assignments of trackRequestEnd to the record it found
CompleteMetric(m, req, responseEnd, status) ==
  [m EXCEPT !.endTime = responseEnd,
            !.duration = responseEnd - req.startTime,
            !.status = status]

\* a forEach that does not skip the records without a positive duration
RECURSIVE SummaryLoopUnfiltered(_, _, _)
SummaryLoopUnfiltered(ms, i, acc) ==
  IF i > Len(ms) THEN acc
  ELSE LET m == ms[i] IN
    SummaryLoopUnfiltered(ms, i + 1,
      [acc EXCEPT !.completedRequests = @ + 1,
                  !.averageDuration = @ + m.duration,
                  !.minDuration = MathMin(@, m.duration),
                  !.maxDuration = MathMax(@, m.duration),
                  !.requestsByStatus = AddCount(@, PropertyKey(m.status), 1),
                  !.requestsByMethod = AddCount(@, m.method, 1)])

\* the forEach of getSummary, from record i on
RECURSIVE SummaryLoop(_, _, _)
SummaryLoop(ms, i, acc) ==
  IF i > Len(ms) THEN acc
  ELSE LET m == ms[i] IN
    IF m.duration > 0
    THEN SummaryLoop(ms, i + 1,
           [acc EXCEPT !.completedRequests = @ + 1,
                       !.averageDuration = @ + m.duration,
                       !.minDuration = MathMin(@, m.duration),
                       !.maxDuration = MathMax(@, m.duration),
                       !.requestsByStatus = AddCount(@, PropertyKey(m.status), 1),
                       !.requestsByMethod = AddCount(@, m.method, 1)])
    ELSE SummaryLoop(ms, i + 1, acc)

\* counters whose minimum starts at 0
InitialSummaryMinZero ==
  [completedRequests |-> 0, averageDuration |-> 0,
   minDuration |-> 0, maxDuration |-> 0,
   requestsByStatus |-> EmptyMap, requestsByMethod |-> EmptyMap]

\* the counters getSummary starts the forEach with
InitialSummary ==
  [completedRequests |-> 0, averageDuration |-> 0,
   minDuration |-> Infinity, maxDuration |-> 0,
   requestsByStatus |-> EmptyMap, requestsByMethod |-> EmptyMap]

\* a total that counts the completed records only
TotalCompleted(ms) == Cardinality({i \in 1..Len(ms) : ms[i].duration > 0})

\* totalRequests: this.metrics.length
TotalRequests(ms) == Len(ms)

\* the summary object getSummary builds for a record collection
Summarize(ms) ==
  LET acc == SummaryLoop(ms, 1, InitialSummary)
  IN [totalRequests |-> TotalRequests(ms),
      averageDuration |-> IF acc.completedRequests > 0
                          THEN MathRound(acc.averageDuration, acc.completedRequests)
                          ELSE 0,
      minDuration |-> acc.minDuration,
      maxDuration |-> acc.maxDuration,
      requestsByStatus |-> acc.requestsByStatus,
      requestsByMethod |-> acc.requestsByMethod]

\* ---- JsonReporter -------------------------------------------------------
CurrentMetrics == arrays[currentMetrics]

\* a store that adds an entry for every call
MapSetAppend(map, key, value) == Append(map, [value EXCEPT !.testName = key])

\* a store that moves the entry of a key that is set again to the end
MapSetMoveLast(map, key, value) ==
  Append(SelectSeq(map, LAMBDA e : e.testName # key),
         [value EXCEPT !.testName = key])

\* Map.prototype.set on the insertion-ordered sessionMetrics
MapSet(map, key, value) ==
  IF \E i \in 1..Len(map) : map[i].testName = key
  THEN [i \in 1..Len(map) |->
          IF map[i].testName = key THEN [value EXCEPT !.testName = key] ELSE map[i]]
  ELSE Append(map, [value EXCEPT !.testName = key])

\* the forEach over Object.entries(src) adding the counts into dst
RECURSIVE MergeCounts(_, _, _)
MergeCounts(dst, src, keys) ==
  IF keys = {} THEN dst
  ELSE LET k == CHOOSE x \in keys : TRUE
       IN MergeCounts(AddCount(dst, k, src[k]), src, keys \ {k})

\* a merge that overwrites the count of a key instead of adding to it
MergeStatusOverwrite(dst, src) ==
  [k \in (DOMAIN dst) \cup {PropertyKey(parseInt(x)) : x \in DOMAIN src} |->
     IF \E x \in DOMAIN src : PropertyKey(parseInt(x)) = k
     THEN src[CHOOSE x \in DOMAIN src : PropertyKey(parseInt(x)) = k]
     ELSE dst[k]]

\* the forEach over Object.entries(summary.requestsByStatus): parseInt of the
\* key, then the count added under that status code
MergeStatus(dst, src) ==
  LET RECURSIVE Go(_, _)
      Go(d, keys) ==
        IF keys = {} THEN d
        ELSE LET k == CHOOSE x \in keys : TRUE
             IN Go(AddCount(d, PropertyKey(parseInt(k)), src[k]), keys \ {k})
  IN Go(dst, DOMAIN src)

\* a reduction that keeps the minimum of the summary visited last
SessionMinLast(acc, s) == s.minDuration

\* the minDuration reduction of generateSessionSummary
SessionMin(acc, s) == MathMin(acc, s.minDuration)

\* an average that truncates
SessionAverageFloor(totalDuration, totalCompletedRequests) ==
  IF totalCompletedRequests > 0
  THEN totalDuration \div totalCompletedRequests
  ELSE 0

\* the use of the accumulated averages at the end of generateSessionSummary
SessionAverage(totalDuration, totalCompletedRequests) ==
  IF totalCompletedRequests > 0
  THEN MathRound(totalDuration, totalCompletedRequests)
  ELSE 0

\* the forEach of generateSessionSummary, from entry i on
RECURSIVE SessionLoop(_, _, _)
SessionLoop(sm, i, acc) ==
  IF i > Len(sm) THEN acc
  ELSE LET s == sm[i].summary IN
    SessionLoop(sm, i + 1,
      [acc EXCEPT !.totalRequests = @ + s.totalRequests,
                  !.totalDuration = IF s.averageDuration > 0
                                    THEN @ + s.averageDuration ELSE @,
                  !.totalCompletedRequests = IF s.averageDuration > 0
                                             THEN @ + 1 ELSE @,
                  !.minDuration = SessionMin(@, s),
                  !.maxDuration = MathMax(@, s.maxDuration),
                  !.requestsByStatus = MergeStatus(@, s.requestsByStatus),
                  !.requestsByMethod = MergeCounts(@, s.requestsByMethod,
                                                   DOMAIN s.requestsByMethod),
                  !.testResults = Append(@, [testName |-> sm[i].testName,
                                             summary |-> s])])

\* the sessionSummary object generateSessionSummary builds
GenerateSessionSummary(sm) ==
  LET acc == SessionLoop(sm, 1,
               [totalRequests |-> 0, totalDuration |-> 0,
                totalCompletedRequests |-> 0,
                minDuration |-> Infinity, maxDuration |-> 0,
                requestsByStatus |-> EmptyMap, requestsByMethod |-> EmptyMap,
                testResults |-> <<>>])
  IN [totalTests |-> Len(sm),
      totalRequests |-> acc.totalRequests,
      averageDuration |-> SessionAverage(acc.totalDuration,
                                         acc.totalCompletedRequests),
      minDuration |-> acc.minDuration,
      maxDuration |-> acc.maxDuration,
      requestsByStatus |-> acc.requestsByStatus,
      requestsByMethod |-> acc.requestsByMethod,
      testResults |-> acc.testResults]

\* the copy [...this.currentMetrics]: the references of the records
RecordRefs(ms) == [i \in 1..Len(ms) |-> ms[i].id]

\* JsonReporter.onTestComplete throws: ensureSessionDir has to create the
\* session directory and its README, outside any try, and the file system
\* refuses (fsOk is FALSE)
JsonOnTestCompleteThrows(fsOk) ==
  /\ Len(CurrentMetrics) # 0
  /\ ~sessionDir
  /\ ~fsOk

\* what a call of onTestComplete does to the entry of the current test name
StoreTag(s) ==
  LET old == {i \in 1..Len(sessionMetrics) :
                sessionMetrics[i].testName = reporterTestName}
  IN IF old = {} THEN "added"
     ELSE IF \E i \in old : sessionMetrics[i].summary # s THEN "replaced"
     ELSE "same"

\* an onTestComplete without the early return on empty current metrics
ReporterOnTestCompleteAlways(s, fsOk) ==
  IF JsonOnTestCompleteThrows(fsOk)
  THEN /\ sessionDir' = TRUE
       /\ stored' = "none"
       /\ UNCHANGED <<sessionMetrics, sessionSummary>>
  ELSE /\ sessionDir' = TRUE
       /\ sessionMetrics' = MapSet(sessionMetrics, reporterTestName,
                                   [testName |-> reporterTestName,
                                    metrics |-> RecordRefs(CurrentMetrics),
                                    summary |-> s])
       /\ sessionSummary' = <<GenerateSessionSummary(sessionMetrics')>>
       /\ stored' = StoreTag(s)

\* JsonReporter.onTestComplete(s) as an update of the reporter's state.  The
\* writes of the metrics, summary and session-summary files are inside
\* try/catch and change no state, whether they fail or not.
ReporterOnTestComplete(s, fsOk) ==
  IF Len(CurrentMetrics) = 0
  THEN /\ stored' = "none"
       /\ UNCHANGED <<sessionDir, sessionMetrics, sessionSummary>>
  ELSE IF JsonOnTestCompleteThrows(fsOk)
  THEN /\ sessionDir' = TRUE
       /\ stored' = "none"
       /\ UNCHANGED <<sessionMetrics, sessionSummary>>
  ELSE /\ sessionDir' = TRUE
       /\ sessionMetrics' = MapSet(sessionMetrics, reporterTestName,
                                   [testName |-> reporterTestName,
                                    metrics |-> RecordRefs(CurrentMetrics),
                                    summary |-> s])
       /\ sessionSummary' = <<GenerateSessionSummary(sessionMetrics')>>
       /\ stored' = StoreTag(s)

\* ---- initial state ------------------------------------------------------
\* the module is loaded: its last line has built the singleton with the
\* default config and a JsonReporter
Init ==
  /\ instance = TRUE
  /\ config = [enabled |-> TRUE]
  /\ configArg = <<>>
  /\ reporter = "JsonReporter"
  /\ htmlSessionDir = FALSE
  /\ htmlCurrentMetrics = HtmlArray
  /\ enabled = FALSE
  /\ metrics = CtorArray
  /\ arrays = [a \in ArrayIds |-> <<>>]
  /\ currentTestName = UnknownTest
  /\ page = NoPage
  /\ listeners = {}
  /\ openPage = 1
  /\ inflight = {}
  /\ nextReq = 0
  /\ reporterTestName = UnknownTest
  /\ currentMetrics = ReporterArray
  /\ sessionDir = FALSE
  /\ sessionMetrics = <<>>
  /\ sessionSummary = <<>>
  /\ summary = <<>>
  /\ lastOp = "init"
  /\ stored = "none"
  /\ onTestCompleteCalls = 0
  /\ enableCall = NoCall
  /\ staleRequests = {}

\* ---- operations ---------------------------------------------------------
ReporterUnchanged ==
  UNCHANGED <<reporterTestName, currentMetrics, sessionDir, sessionMetrics,
              sessionSummary, htmlCurrentMetrics>>

\* the singleton, its config and the registered reporter stay as they are
SetupUnchanged ==
  UNCHANGED <<instance, config, configArg, reporter, htmlSessionDir>>

\* enable() is called with testName: the first call of a test is kept
FirstCall(testName) == IF enableCall = NoCall THEN testName ELSE enableCall

\* the onTestComplete invocations of the running test so far: the count
\* left by the close of a page belongs to the test that ended with it
CallsInTest ==
  IF lastOp \in {"close", "closeThrew", "closeTypeError"}
  THEN 0 ELSE onTestCompleteCalls

\* a step that does not call reporter.onTestComplete
NoTestComplete ==
  /\ stored' = "none"
  /\ onTestCompleteCalls' = CallsInTest

\* Symphony.enable(page, testName) called by the running test with its page;
\* testName "" stands for an omitted name
Enable(testName) ==
  /\ lastOp' = "enable"
  /\ openPage \in Pages
  /\ ~enabled
  /\ enabled' = TRUE
  /\ metrics' = EnableArray
  /\ arrays' = [arrays EXCEPT ![EnableArray] = <<>>]
  /\ page' = openPage
  /\ IF testName # ""
     THEN /\ currentTestName' = testName
          /\ reporterTestName' = IF reporter = "JsonReporter"
                                 THEN testName ELSE reporterTestName
     ELSE UNCHANGED <<currentTestName, reporterTestName>>
  /\ listeners' = listeners \cup {openPage}
  /\ summary' = <<>>
  /\ enableCall' = FirstCall(testName)
  /\ NoTestComplete
  /\ SetupUnchanged
  /\ UNCHANGED <<openPage, inflight, nextReq, currentMetrics, sessionDir,
                 sessionMetrics, sessionSummary, staleRequests,
                 htmlCurrentMetrics>>

\* an enable that runs its body again on an instance that is already enabled
EnableAgainReset(testName) ==
  /\ lastOp' = "enableAgain"
  /\ openPage \in Pages
  /\ enabled
  /\ metrics' = EnableArray
  /\ arrays' = [arrays EXCEPT ![EnableArray] = <<>>]
  /\ page' = openPage
  /\ IF testName # ""
     THEN /\ currentTestName' = testName
          /\ reporterTestName' = IF reporter = "JsonReporter"
                                 THEN testName ELSE reporterTestName
     ELSE UNCHANGED <<currentTestName, reporterTestName>>
  /\ listeners' = listeners \cup {openPage}
  /\ summary' = <<>>
  /\ enableCall' = FirstCall(testName)
  /\ NoTestComplete
  /\ SetupUnchanged
  /\ UNCHANGED <<enabled, openPage, inflight, nextReq, currentMetrics,
                 sessionDir, sessionMetrics, sessionSummary, staleRequests,
                 htmlCurrentMetrics>>

\* Symphony.enable(page, testName) on an instance that is already enabled:
\* the early return
EnableAgain(testName) ==
  /\ lastOp' = "enableAgain"
  /\ openPage \in Pages
  /\ enabled
  /\ summary' = <<>>
  /\ enableCall' = FirstCall(testName)
  /\ NoTestComplete
  /\ SetupUnchanged
  /\ UNCHANGED <<enabled, metrics, arrays, currentTestName, page, listeners,
                 openPage, inflight, nextReq, staleRequests>>
  /\ ReporterUnchanged

\* Symphony.trackRequestStart(request) as an update of the arrays
TrackRequestStart(req) ==
  IF ~enabled
  THEN UNCHANGED arrays
  ELSE arrays' = [arrays EXCEPT ![metrics] = Append(@, NewMetric(req))]

\* the open page issues a request and emits 'request'.  Requests of a page
\* without listeners are left out once Symphony is enabled, unless the test
\* called enable(): no listener can be registered any more, so none of
\* their events is ever handled.
RequestEvent(target, startTime) ==
  /\ lastOp' = "request"
  /\ nextReq < MaxRequests
  /\ openPage \in Pages
  /\ openPage \in listeners \/ ~enabled \/ enableCall # NoCall
  /\ LET req == [id |-> nextReq + 1, url |-> target.url,
                 method |-> target.method, startTime |-> startTime]
     IN /\ inflight' = inflight \cup {req}
        /\ nextReq' = nextReq + 1
        /\ IF openPage \in listeners
           THEN TrackRequestStart(req)
           ELSE UNCHANGED arrays
  /\ summary' = <<>>
  /\ NoTestComplete
  /\ SetupUnchanged
  /\ UNCHANGED <<enabled, metrics, currentTestName, page, listeners, openPage,
                 enableCall, staleRequests>>
  /\ ReporterUnchanged

\* reporter.onMetricsCollected(this.metrics): both reporters keep the array
\* they are handed
OnMetricsCollected ==
  IF reporter = "HtmlReporter"
  THEN /\ htmlCurrentMetrics' = metrics
       /\ UNCHANGED currentMetrics
  ELSE /\ currentMetrics' = metrics
       /\ UNCHANGED htmlCurrentMetrics

\* a trackRequestEnd that reports to the reporter only when it found a record
TrackRequestEndOnMatch(req, responseEnd, status) ==
  IF ~enabled
  THEN UNCHANGED <<arrays, currentMetrics, htmlCurrentMetrics>>
  ELSE LET i == FindMetric(Metrics, req) IN
       /\ arrays' = IF i # 0
                    THEN [arrays EXCEPT ![metrics][i] =
                            CompleteMetric(@, req, responseEnd, status)]
                    ELSE arrays
       /\ IF i # 0 THEN OnMetricsCollected
          ELSE UNCHANGED <<currentMetrics, htmlCurrentMetrics>>

\* Symphony.trackRequestEnd(response) as an update of the arrays and of the
\* reporter's currentMetrics (JsonReporter.onMetricsCollected)
TrackRequestEnd(req, responseEnd, status) ==
  IF ~enabled
  THEN UNCHANGED <<arrays, currentMetrics, htmlCurrentMetrics>>
  ELSE LET i == FindMetric(Metrics, req) IN
       /\ arrays' = IF i # 0
                    THEN [arrays EXCEPT ![metrics][i] =
                            CompleteMetric(@, req, responseEnd, status)]
                    ELSE arrays
       /\ OnMetricsCollected

\* no record of the collection has the url and method of the request
NoRecordFor(ms, req) ==
  \A i \in 1..Len(ms) : ~(ms[i].url = req.url /\ ms[i].method = req.method)

\* the open page emits 'response' for one of its requests
ResponseEvent(req, responseEnd, status) ==
  /\ lastOp' = IF openPage \notin listeners \/ ~enabled THEN "responseIgnored"
               ELSE IF NoRecordFor(Metrics, req) THEN "responseUnmatched"
               ELSE "responseMatched"
  /\ req \in inflight
  /\ openPage \in Pages
  /\ inflight' = inflight \ {req}
  /\ IF openPage \in listeners
     THEN TrackRequestEnd(req, responseEnd, status)
     ELSE UNCHANGED <<arrays, currentMetrics, htmlCurrentMetrics>>
  /\ summary' = <<>>
  /\ staleRequests' = staleRequests \ {req.id}
  /\ NoTestComplete
  /\ SetupUnchanged
  /\ UNCHANGED <<enabled, metrics, currentTestName, page, listeners, openPage,
                 nextReq, reporterTestName, sessionDir, sessionMetrics,
                 sessionSummary, enableCall>>

\* the next value of the invocation count, which stops at MaxCalls
Bump(n) == IF n < MaxCalls THEN n + 1 ELSE MaxCalls

\* HtmlReporter.onTestComplete(summary, testInfo) called with no testInfo:
\* past the early return, generateHtmlReport reads testInfo.duration
HtmlOnTestCompleteThrows ==
  /\ htmlSessionDir
  /\ Len(arrays[htmlCurrentMetrics]) # 0

\* how this.reporter.onTestComplete(summary) ends
OnTestCompleteResult(fsOk) ==
  IF reporter = "HtmlReporter"
  THEN IF HtmlOnTestCompleteThrows THEN "typeError" ELSE "ok"
  ELSE IF JsonOnTestCompleteThrows(fsOk) THEN "fsError" ELSE "ok"

\* this.reporter.onTestComplete(summary) as an update of the reporter
OnTestComplete(s, fsOk) ==
  IF reporter = "HtmlReporter"
  THEN /\ stored' = "none"
       /\ UNCHANGED <<sessionDir, sessionMetrics, sessionSummary>>
  ELSE ReporterOnTestComplete(s, fsOk)

\* a getSummary that empties the collection once it has reported it
GetSummaryBodyFlush(fsOk) ==
  LET s == Summarize(Metrics) IN
  /\ summary' = IF OnTestCompleteResult(fsOk) = "ok" THEN <<s>> ELSE <<>>
  /\ OnTestComplete(s, fsOk)
  /\ onTestCompleteCalls' = Bump(CallsInTest)
  /\ arrays' = [arrays EXCEPT ![metrics] = <<>>]
  /\ SetupUnchanged
  /\ UNCHANGED <<enabled, metrics, currentTestName, page, listeners,
                 nextReq, reporterTestName, currentMetrics,
                 htmlCurrentMetrics>>

\* Symphony.getSummary() as an update of the returned value and the
\* reporter; nothing is returned when reporter.onTestComplete throws
GetSummaryBody(fsOk) ==
  LET s == Summarize(Metrics) IN
  /\ summary' = IF OnTestCompleteResult(fsOk) = "ok" THEN <<s>> ELSE <<>>
  /\ OnTestComplete(s, fsOk)
  /\ onTestCompleteCalls' = Bump(CallsInTest)
  /\ SetupUnchanged
  /\ UNCHANGED <<enabled, metrics, arrays, currentTestName, page, listeners,
                 nextReq, reporterTestName, currentMetrics,
                 htmlCurrentMetrics>>

\* the test calls symphony.getSummary(); fsOk: the file system lets the
\* reporter create its session directory
GetSummary ==
  \E fsOk \in BOOLEAN :
    /\ lastOp' = CASE OnTestCompleteResult(fsOk) = "fsError" -> "getSummaryThrew"
                   [] OnTestCompleteResult(fsOk) = "typeError" -> "getSummaryTypeError"
                   [] OTHER -> IF summary # <<>> THEN "getSummaryAgain"
                               ELSE "getSummary"
    /\ GetSummaryBody(fsOk)
    /\ UNCHANGED <<openPage, inflight, enableCall, staleRequests>>

\* the test ends: its page emits 'close' and the requests still in flight
\* on it get no response; the next test starts on a new page
PageClose ==
  \E fsOk \in BOOLEAN :
    /\ lastOp' = CASE openPage \in listeners
                        /\ OnTestCompleteResult(fsOk) = "fsError" -> "closeThrew"
                   [] openPage \in listeners
                        /\ OnTestCompleteResult(fsOk) = "typeError" -> "closeTypeError"
                   [] OTHER -> "close"
    /\ openPage \in Pages
    /\ openPage' = openPage + 1
    /\ inflight' = {}
    /\ enableCall' = NoCall
    /\ staleRequests' = {}
    /\ IF openPage \in listeners
       THEN GetSummaryBody(fsOk)
       ELSE /\ summary' = <<>>
            /\ NoTestComplete
            /\ SetupUnchanged
            /\ UNCHANGED <<enabled, metrics, arrays, currentTestName, page,
                           listeners, nextReq, reporterTestName, currentMetrics,
                           sessionDir, sessionMetrics, sessionSummary,
                           htmlCurrentMetrics>>

\* a clearMetrics that gives Symphony a new empty array
ClearMetricsFresh ==
  /\ lastOp' = "clearMetrics"
  /\ metrics' = CtorArray
  /\ arrays' = [arrays EXCEPT ![CtorArray] = <<>>]
  /\ summary' = <<>>
  /\ staleRequests' = {r.id : r \in inflight}
  /\ NoTestComplete
  /\ SetupUnchanged
  /\ UNCHANGED <<enabled, currentTestName, page, listeners, openPage,
                 inflight, nextReq, enableCall>>
  /\ ReporterUnchanged

\* Symphony.clearMetrics()
ClearMetrics ==
  /\ lastOp' = "clearMetrics"
  /\ arrays' = [arrays EXCEPT ![metrics] = <<>>]
  /\ summary' = <<>>
  /\ staleRequests' = {r.id : r \in inflight}
  /\ NoTestComplete
  /\ SetupUnchanged
  /\ UNCHANGED <<enabled, metrics, currentTestName, page, listeners, openPage,
                 inflight, nextReq, enableCall>>
  /\ ReporterUnchanged

\* the running test calls Symphony.setCurrentTestName(testName)
SetCurrentTestName(testName) ==
  /\ lastOp' = "setCurrentTestName"
  /\ openPage \in Pages
  /\ currentTestName' = testName
  /\ reporterTestName' = IF reporter = "JsonReporter"
                         THEN testName ELSE reporterTestName
  /\ summary' = <<>>
  /\ NoTestComplete
  /\ SetupUnchanged
  /\ UNCHANGED <<enabled, metrics, arrays, page, listeners, openPage, inflight,
                 nextReq, currentMetrics, sessionDir, sessionMetrics,
                 sessionSummary, enableCall, staleRequests,
                 htmlCurrentMetrics>>

Next ==
  \/ \E n \in {TestTitle(openPage), ""} : Enable(n)
  \/ EnableAgain(TestTitle(openPage))
  \/ \E g \in Targets, t \in StartTimes : RequestEvent(g, t)
  \/ \E r \in inflight, e \in EndTimes, s \in Statuses : ResponseEvent(r, e, s)
  \/ GetSummary
  \/ PageClose
  \/ ClearMetrics
  \/ SetCurrentTestName(TestTitle(openPage))

Spec == Init /\ [][Next]_vars

\* ---- loading the module and setting the instance up ----------------------
\* an ensureOutputDir that logs the error and goes on
EnsureOutputDirSwallows(dirWritable) == FALSE

\* JsonReporter.ensureOutputDir throws: it logs the error of mkdirSync or of
\* the test write and throws it again
EnsureOutputDirThrows(dirWritable) == ~dirWritable

\* the config the constructor builds from its argument: the defaults, then
\* the options of the argument
MergeConfig(cfg) == [enabled |-> IF cfg = <<>> THEN TRUE ELSE cfg[1]]

\* Symphony.getInstance(config).  Without an instance it runs the
\* constructor, which builds the JsonReporter, whose constructor checks the
\* output directory (dirWritable: the directory can be created and written).
GetInstance(cfg, dirWritable) ==
  /\ configArg' = cfg
  /\ lastOp' = IF instance THEN "getInstance"
               ELSE IF dirWritable THEN "construct"
               ELSE "constructUnwritable"
  /\ IF instance \/ EnsureOutputDirThrows(dirWritable)
     THEN UNCHANGED <<instance, config, reporter>>
     ELSE /\ instance' = TRUE
          /\ config' = MergeConfig(cfg)
          /\ reporter' = "JsonReporter"
  /\ summary' = <<>>
  /\ NoTestComplete
  /\ UNCHANGED <<htmlSessionDir, enabled, metrics, arrays, currentTestName,
                 page, listeners, openPage, inflight, nextReq, enableCall,
                 staleRequests>>
  /\ ReporterUnchanged

\* the test builds an HtmlReporter, calls its setSessionDir and registers
\* it with Symphony.setReporter
SetReporter ==
  /\ lastOp' = "setReporter"
  /\ reporter' = "HtmlReporter"
  /\ htmlSessionDir' = TRUE
  /\ htmlCurrentMetrics' = HtmlArray
  /\ arrays' = [arrays EXCEPT ![HtmlArray] = <<>>]
  /\ summary' = <<>>
  /\ NoTestComplete
  /\ UNCHANGED <<instance, config, configArg, enabled, metrics,
                 currentTestName, page, listeners, openPage, inflight, nextReq,
                 enableCall, staleRequests, reporterTestName, currentMetrics,
                 sessionDir, sessionMetrics, sessionSummary>>

\* MaxSetupRequests bounds the requests of a run that starts with the load
MaxSetupRequests == 1

\* before the module is loaded: no instance and no reporter; the fields hold
\* what their initializers will give them
InitSetup ==
  /\ instance = FALSE
  /\ config = [enabled |-> TRUE]
  /\ configArg = <<>>
  /\ reporter = "none"
  /\ htmlSessionDir = FALSE
  /\ htmlCurrentMetrics = HtmlArray
  /\ enabled = FALSE
  /\ metrics = CtorArray
  /\ arrays = [a \in ArrayIds |-> <<>>]
  /\ currentTestName = UnknownTest
  /\ page = NoPage
  /\ listeners = {}
  /\ openPage = 1
  /\ inflight = {}
  /\ nextReq = 0
  /\ reporterTestName = UnknownTest
  /\ currentMetrics = ReporterArray
  /\ sessionDir = FALSE
  /\ sessionMetrics = <<>>
  /\ sessionSummary = <<>>
  /\ summary = <<>>
  /\ lastOp = "init"
  /\ stored = "none"
  /\ onTestCompleteCalls = 0
  /\ enableCall = NoCall
  /\ staleRequests = {}

\* the module is loaded (its last line calls getInstance() with no config),
\* again after a load that threw; once it is loaded a test can ask for the
\* instance with a config and register an HtmlReporter, before it enables
\* tracking, and run on its page
NextSetup ==
  \/ ~instance /\ \E w \in BOOLEAN : GetInstance(<<>>, w)
  \/ instance /\ ~enabled /\ \E c \in Configs : GetInstance(c, TRUE)
  \/ instance /\ ~enabled /\ SetReporter
  \/ instance /\ \E n \in {TestTitle(openPage), ""} : Enable(n)
  \/ instance /\ nextReq < MaxSetupRequests
              /\ \E g \in Targets, t \in StartTimes : RequestEvent(g, t)
  \/ instance /\ \E r \in inflight, e \in EndTimes, s \in Statuses :
                    ResponseEvent(r, e, s)
  \/ instance /\ GetSummary

SetupSpec == InitSetup /\ [][NextSetup]_vars

\* ---- getSummary over drawn record collections --------------------------
\* MaxRecords bounds the length of the collections
MaxRecords == 3

\* what a response event can have written into a record that started at 2
Outcomes == {[endTime |-> e, status |-> s] : e \in 1..4, s \in Statuses}

\* a pending record of the target, as trackRequestStart leaves it
PendingRecord(i, target) ==
  NewMetric([id |-> i, url |-> target.url, method |-> target.method,
             startTime |-> 2])

\* the record after its response
CompletedRecord(i, target, o) ==
  CompleteMetric(PendingRecord(i, target),
                 [id |-> i, url |-> target.url, method |-> target.method,
                  startTime |-> 2], o.endTime, o.status)

\* trackRequestEnd writes only the first record of an identity: a record
\* collection of the program has a response only on such records
FirstOfIdentity(ms) ==
  \A i \in 1..Len(ms) :
    ms[i].status # 0 => FindMetric(ms, ms[i]) = i

RecordCollections ==
  UNION {
    {ms \in [1..n -> {PendingRecord(0, g) : g \in Targets}
                     \cup {CompletedRecord(0, g, o) : g \in Targets, o \in Outcomes}] :
       FirstOfIdentity(ms)} : n \in 0..MaxRecords}

Numbered(ms) == [i \in 1..Len(ms) |-> [ms[i] EXCEPT !.id = i]]

\* Symphony enabled on the open page with a record collection drawn from
\* RecordCollections; the reporter has been handed the collection, unless no
\* response was handled yet
InitSummary ==
  /\ instance = TRUE
  /\ config = [enabled |-> TRUE]
  /\ configArg = <<>>
  /\ reporter = "JsonReporter"
  /\ htmlSessionDir = FALSE
  /\ htmlCurrentMetrics = HtmlArray
  /\ enabled = TRUE
  /\ metrics = EnableArray
  /\ \E ms \in RecordCollections :
       /\ arrays = [a \in ArrayIds |-> IF a = EnableArray THEN Numbered(ms) ELSE <<>>]
       /\ nextReq = Len(ms)
       /\ currentMetrics \in {EnableArray} \cup
            (IF \A i \in 1..Len(ms) : ms[i].status = 0 THEN {ReporterArray} ELSE {})
  /\ currentTestName = UnknownTest
  /\ page = 1
  /\ listeners = {1}
  /\ openPage = 1
  /\ inflight = {}
  /\ reporterTestName = UnknownTest
  /\ sessionDir = FALSE
  /\ sessionMetrics = <<>>
  /\ sessionSummary = <<>>
  /\ summary = <<>>
  /\ lastOp = "init"
  /\ stored = "none"
  /\ onTestCompleteCalls = 0
  /\ enableCall = ""
  /\ staleRequests = {}

NextSummary == GetSummary

SummarySpec == InitSummary /\ [][NextSummary]_vars

\* ---- one test page whose test sets the test name freely -----------------
\* MaxRollupRequests bounds the requests of such a run
MaxRollupRequests == 2

\* the names the test passes to setCurrentTestName
RollupNames == {TestTitle(p) : p \in Pages}

\* the module is loaded; the test enables tracking on its page, sets the
\* current test name and clears the collection any number of times and asks
\* for the summary
NextRollup ==
  \/ Enable(TestTitle(openPage))
  \/ ClearMetrics
  \/ \E n \in RollupNames : SetCurrentTestName(n)
  \/ nextReq < MaxRollupRequests
       /\ \E g \in Targets, t \in StartTimes : RequestEvent(g, t)
  \/ \E r \in inflight, e \in EndTimes, s \in Statuses : ResponseEvent(r, e, s)
  \/ GetSummary

RollupSpec == Init /\ [][NextRollup]_vars

\* ---- the claims ----------------------------------------------------------
\* the records a response event has written
Responded(ms) == {i \in 1..Len(ms) : ms[i].status # 0}

\* the records getSummary counts as completed
Completed(ms) == {i \in 1..Len(ms) : ms[i].duration > 0}

RECURSIVE SumOver(_, _)
SumOver(f, S) ==
  IF S = {} THEN 0
  ELSE LET x == CHOOSE y \in S : TRUE IN f[x] + SumOver(f, S \ {x})

\* the sum of the counts of a map
MapTotal(map) == SumOver(map, DOMAIN map)

\* C1: every record a response event has completed has
\* duration = endTime - startTime, with startTime the value stored at the
\* request start, and duration > 0 whenever endTime > startTime.
C1_CompletionInvariant ==
  \A i \in Responded(Metrics) :
    LET m == Metrics[i] IN
    /\ m.duration = m.endTime - m.startTime
    /\ (m.endTime > m.startTime => m.duration > 0)

\* C2: getSummary builds requestsByStatus and requestsByMethod from exactly
\* the completed records: every completed record counts once under its
\* status and once under its method, the others under neither, and the
\* counts of each map sum to the number of completed records.
C2_MapsFromCompleted ==
  summary # <<>> =>
    LET s == summary[1]
        done == Completed(Metrics)
    IN /\ DOMAIN s.requestsByStatus = {PropertyKey(Metrics[i].status) : i \in done}
       /\ \A k \in DOMAIN s.requestsByStatus :
            s.requestsByStatus[k] =
              Cardinality({i \in done : PropertyKey(Metrics[i].status) = k})
       /\ DOMAIN s.requestsByMethod = {Metrics[i].method : i \in done}
       /\ \A k \in DOMAIN s.requestsByMethod :
            s.requestsByMethod[k] =
              Cardinality({i \in done : Metrics[i].method = k})
       /\ MapTotal(s.requestsByStatus) = Cardinality(done)
       /\ MapTotal(s.requestsByMethod) = Cardinality(done)

\* a summary was returned for a collection with completed records of two
\* statuses and with a pending record
C2_Witness ==
  /\ summary # <<>>
  /\ Cardinality({Metrics[i].status : i \in Completed(Metrics)}) = 2
  /\ \E i \in 1..Len(Metrics) : Metrics[i].status = 0

\* C3: with at least one completed record, averageDuration is the mean of
\* the completed durations rounded to the nearest integer (halves up),
\* minDuration the smallest and maxDuration the largest completed duration;
\* averageDuration is 0 when no record is completed.
C3_DurationStats ==
  summary # <<>> =>
    LET s == summary[1]
        done == Completed(Metrics)
        n == Cardinality(done)
        total == SumOver([i \in done |-> Metrics[i].duration], done)
    IN IF n = 0 THEN s.averageDuration = 0
       ELSE /\ 2 * n * s.averageDuration <= 2 * total + n
            /\ 2 * total + n < 2 * n * (s.averageDuration + 1)
            /\ \E i \in done : Metrics[i].duration = s.minDuration
            /\ \A i \in done : Metrics[i].duration >= s.minDuration
            /\ \E i \in done : Metrics[i].duration = s.maxDuration
            /\ \A i \in done : Metrics[i].duration <= s.maxDuration

\* a summary was returned whose mean falls on a half, over a collection
\* that also holds a record that is not completed
C3_Witness ==
  /\ summary # <<>>
  /\ Cardinality(Completed(Metrics)) = 2
  /\ Len(Metrics) = 3
  /\ {Metrics[i].duration : i \in Completed(Metrics)} = {1, 2}
  /\ summary[1].averageDuration = 2

\* C4: on an empty collection getSummary returns totalRequests 0,
\* averageDuration 0, minDuration Infinity, maxDuration 0 and empty maps; the
\* same statistics and maps are returned when no record is completed.
C4_EmptySummary ==
  (summary # <<>> /\ Completed(Metrics) = {}) =>
    LET s == summary[1]
    IN /\ s.averageDuration = 0
       /\ s.minDuration = Infinity
       /\ s.maxDuration = 0
       /\ s.requestsByStatus = EmptyMap
       /\ s.requestsByMethod = EmptyMap
       /\ (Len(Metrics) = 0 => s.totalRequests = 0)

\* a summary was returned for a collection of pending records only
C4_Witness ==
  /\ summary # <<>>
  /\ Len(Metrics) > 0
  /\ \A i \in 1..Len(Metrics) : Metrics[i].status = 0

\* C5: totalRequests is the number of all records of the collection,
\* pending ones included, and at least the sum of the requestsByStatus counts.
C5_TotalRequests ==
  summary # <<>> =>
    /\ summary[1].totalRequests = Len(Metrics)
    /\ summary[1].totalRequests >= MapTotal(summary[1].requestsByStatus)

\* a summary was returned for a collection with a pending and a completed
\* record
C5_Witness ==
  /\ summary # <<>>
  /\ Completed(Metrics) # {}
  /\ \E i \in 1..Len(Metrics) : Metrics[i].status = 0

\* C6: a getSummary call that directly follows a getSummary call returns a
\* summary equal to the first one.
C6_SummaryIdempotent ==
  [][lastOp' = "getSummaryAgain" => summary' = summary]_vars

\* getSummary was called right after a getSummary call that had stored a
\* summary with completed records in the session rollup
C6_Witness ==
  /\ lastOp = "getSummaryAgain"
  /\ summary # <<>>
  /\ Completed(Metrics) # {}
  /\ Len(sessionMetrics) > 0
  /\ sessionMetrics[Len(sessionMetrics)].summary = summary[1]

\* C7: a response event whose request matches no record by url and method
\* leaves the record collection as it was.
C7_UnmatchedResponse ==
  [][lastOp' = "responseUnmatched" => (metrics' = metrics /\ arrays' = arrays)]_vars

\* an unmatched response was handled while the collection held a record
C7_Witness ==
  /\ lastOp = "responseUnmatched"
  /\ Len(Metrics) > 0

\* the count a map holds for a key, 0 for a key it does not hold
CountIn(map, k) == IF k \in DOMAIN map THEN map[k] ELSE 0

\* the summaries stored in the session rollup
Stored == 1..Len(sessionMetrics)
StoredSummary(i) == sessionMetrics[i].summary

\* C8: the session summary is additive over the stored per-test summaries:
\* totalRequests is the sum of their totalRequests, and requestsByStatus and
\* requestsByMethod hold for every key the sum of its counts; totalTests is
\* the number of stored summaries.
C8_RollupAdditive ==
  sessionSummary # <<>> =>
    LET ss == sessionSummary[1] IN
    /\ ss.totalTests = Cardinality(Stored)
    /\ ss.totalRequests =
         SumOver([i \in Stored |-> StoredSummary(i).totalRequests], Stored)
    /\ DOMAIN ss.requestsByStatus =
         UNION {DOMAIN StoredSummary(i).requestsByStatus : i \in Stored}
    /\ \A k \in DOMAIN ss.requestsByStatus :
         ss.requestsByStatus[k] =
           SumOver([i \in Stored |-> CountIn(StoredSummary(i).requestsByStatus, k)],
                   Stored)
    /\ DOMAIN ss.requestsByMethod =
         UNION {DOMAIN StoredSummary(i).requestsByMethod : i \in Stored}
    /\ \A k \in DOMAIN ss.requestsByMethod :
         ss.requestsByMethod[k] =
           SumOver([i \in Stored |-> CountIn(StoredSummary(i).requestsByMethod, k)],
                   Stored)

\* two stored summaries share a status and a method, and one of them holds
\* a status the other does not
C8_Witness ==
  /\ sessionSummary # <<>>
  /\ \E i, j \in Stored :
       /\ i # j
       /\ "200" \in DOMAIN StoredSummary(i).requestsByStatus
       /\ "200" \in DOMAIN StoredSummary(j).requestsByStatus
       /\ "404" \in DOMAIN StoredSummary(j).requestsByStatus
       /\ "404" \notin DOMAIN StoredSummary(i).requestsByStatus
       /\ DOMAIN StoredSummary(i).requestsByMethod
            \cap DOMAIN StoredSummary(j).requestsByMethod # {}

\* the stored summaries with a finite minDuration
FiniteMin == {i \in Stored : StoredSummary(i).minDuration # Infinity}

\* C9: when a stored summary has a finite minDuration, the session
\* minDuration is the smallest finite minDuration of the stored summaries.
C9_SessionMin ==
  (sessionSummary # <<>> /\ FiniteMin # {}) =>
    LET ss == sessionSummary[1] IN
    /\ ss.minDuration # Infinity
    /\ \E i \in FiniteMin : StoredSummary(i).minDuration = ss.minDuration
    /\ \A i \in FiniteMin : StoredSummary(i).minDuration >= ss.minDuration

\* a summary with the sentinel is stored after one with a finite minimum
C9_Witness ==
  /\ sessionSummary # <<>>
  /\ Len(sessionMetrics) = 2
  /\ StoredSummary(1).minDuration # Infinity
  /\ StoredSummary(2).minDuration = Infinity

\* the stored summaries with averageDuration > 0
WithAverage == {i \in Stored : StoredSummary(i).averageDuration > 0}

\* C10: the session averageDuration is the mean of the stored
\* averageDuration values that are > 0, each counted once, rounded to the
\* nearest integer (halves up), and 0 when there is none.
C10_SessionAverage ==
  sessionSummary # <<>> =>
    LET ss == sessionSummary[1]
        n == Cardinality(WithAverage)
        total == SumOver([i \in WithAverage |-> StoredSummary(i).averageDuration],
                         WithAverage)
    IN IF n = 0 THEN ss.averageDuration = 0
       ELSE /\ 2 * n * ss.averageDuration <= 2 * total + n
            /\ 2 * total + n < 2 * n * (ss.averageDuration + 1)

\* two summaries with a different number of requests are stored whose
\* averages, 1 and 2, have a mean on a half
C10_Witness ==
  /\ sessionSummary # <<>>
  /\ \E j, k \in Stored :
       /\ StoredSummary(j).averageDuration = 1
       /\ StoredSummary(k).averageDuration = 2
       /\ StoredSummary(j).totalRequests # StoredSummary(k).totalRequests
  /\ sessionSummary[1].averageDuration = 2

\* the test names of a session rollup
StoredNames(sm) == {sm[i].testName : i \in 1..Len(sm)}

\* C11: storing a summary under a test name that is already stored replaces
\* the earlier summary: after the store the rollup holds one entry per name,
\* the entry of the stored name holds the summary just reported, the entries
\* of the other names are kept, totalTests is the number of distinct names
\* and totalRequests sums the latest summary of each name.
C11_LastWriteWins ==
  [][stored' # "none" =>
       LET n == reporterTestName
           old == sessionMetrics
           new == sessionMetrics'
           names == StoredNames(old) \cup {n}
           LatestOf(x) ==
             IF x = n THEN summary'[1]
             ELSE old[CHOOSE i \in 1..Len(old) : old[i].testName = x].summary
       IN /\ StoredNames(new) = names
          /\ Len(new) = Cardinality(names)
          /\ \A i \in 1..Len(new) : new[i].summary = LatestOf(new[i].testName)
          /\ sessionSummary'[1].totalTests = Cardinality(names)
          /\ sessionSummary'[1].totalRequests =
               SumOver([x \in names |-> LatestOf(x).totalRequests], names)
     ]_vars

\* a summary replaced a different one stored under the same name, next to
\* the entry of another name
C11_Witness ==
  /\ stored = "replaced"
  /\ Len(sessionMetrics) = 2
  /\ sessionSummary # <<>>

\* the step is the close of the open page
IsClose(op) == op \in {"close", "closeThrew", "closeTypeError"}

\* C12: the reporter's onTestComplete hook is called once per test: when a
\* test that called enable() and made one explicit getSummary() call ends
\* with the close of its page, the reporter has received exactly one
\* onTestComplete invocation for it.
C12_OncePerTest ==
  [][(IsClose(lastOp') /\ enableCall # NoCall /\ CallsInTest = 1)
       => onTestCompleteCalls' = 1]_vars

\* the last step handled a response event with tracking enabled
ResponseHandled == lastOp \in {"responseMatched", "responseUnmatched"}

\* C13: after every response event handled while tracking is enabled, the
\* reporter's current metrics are the full record collection Symphony holds.
C13_FullCollection ==
  ResponseHandled => (currentMetrics = metrics /\ CurrentMetrics = Metrics)

\* a response was handled while the collection also held a pending record
C13_Witness ==
  /\ lastOp = "responseMatched"
  /\ Len(Metrics) = 2
  /\ \E i \in 1..Len(Metrics) : Metrics[i].status = 0

\* C14: for every page on which enable() was called, the close of the page
\* computes the summary of the current record collection and forwards it to
\* the reporter's onTestComplete, which records it in the session rollup
\* (when the reporter holds metrics); this covers the pages of later tests.
C14_CloseForwards ==
  [][(lastOp' = "close" /\ enableCall # NoCall) =>
       /\ summary' # <<>>
       /\ summary'[1].totalRequests = Len(Metrics)
       /\ onTestCompleteCalls' >= 1
       /\ (Len(CurrentMetrics) > 0 =>
            \E i \in 1..Len(sessionMetrics') :
              /\ sessionMetrics'[i].testName = reporterTestName
              /\ sessionMetrics'[i].summary = summary'[1])
     ]_vars

\* C15: after clearMetrics() the collection is empty, a getSummary() issued
\* right after it returns totalRequests 0 with empty maps, and the response
\* of a request that started before the reset leaves the records created
\* after it untouched.
C15_ClearMetrics ==
  [][/\ (lastOp' = "clearMetrics" => Len(arrays'[metrics']) = 0)
     /\ ((lastOp = "clearMetrics" /\ summary' # <<>>) =>
           /\ summary'[1].totalRequests = 0
           /\ summary'[1].requestsByStatus = EmptyMap
           /\ summary'[1].requestsByMethod = EmptyMap)
     /\ ((lastOp' \in {"responseMatched", "responseUnmatched", "responseIgnored"}
           /\ \E r \in inflight \ inflight' : r.id \in staleRequests)
          => arrays'[metrics'] = Metrics)
    ]_vars

\* C16: in every test that calls enable(page, title), the first or a later
\* one, a request its page issues afterwards is recorded, and getSummary()
\* in that test is attributed to the title of that test.
C16_EnablePerTest ==
  (openPage \in Pages /\ enableCall = TestTitle(openPage)) =>
    /\ (lastOp = "request" => \E i \in 1..Len(Metrics) : Metrics[i].id = nextReq)
    /\ (summary # <<>> => /\ currentTestName = TestTitle(openPage)
                          /\ reporterTestName = TestTitle(openPage))

\* the step handled a request or a response event of the open page
IsPageEvent(op) ==
  op \in {"request", "responseMatched", "responseUnmatched", "responseIgnored"}

\* C17: the config option enabled switches Symphony off: on an instance
\* configured with enabled = false, the request and response events that
\* follow enable(page) record nothing and hand the reporter nothing; with
\* the default config a request of an enabled page is recorded.
C17_ConfigEnabled ==
  [][/\ ((config.enabled = FALSE \/ configArg = <<FALSE>>) /\ IsPageEvent(lastOp'))
          => /\ arrays' = arrays
             /\ currentMetrics' = currentMetrics
             /\ htmlCurrentMetrics' = htmlCurrentMetrics
     /\ (configArg = <<>> /\ lastOp' = "request"
           /\ enabled /\ openPage \in listeners)
          => Len(arrays'[metrics']) = Len(Metrics) + 1
    ]_vars

\* the step called reporter.onTestComplete while the reporter held metrics
ReportsMetrics(op) ==
  /\ \/ op \in {"getSummary", "getSummaryAgain", "getSummaryThrew"}
     \/ IsClose(op) /\ openPage \in listeners
  /\ Len(CurrentMetrics) > 0

\* C18: a file-system failure while the reporter emits the artifacts of a
\* test is caught in the reporter: getSummary() does not throw and the
\* summary of the test is recorded in the session rollup.
C18_WriteFailureCaught ==
  [][ReportsMetrics(lastOp') =>
       /\ lastOp' \notin {"getSummaryThrew", "closeThrew"}
       /\ \E i \in 1..Len(sessionMetrics') :
            sessionMetrics'[i].testName = reporterTestName
     ]_vars

\* C19: when the output directory cannot be created or written while the
\* JsonReporter is constructed, the constructor throws: no Symphony
\* instance and no reporter exist afterwards, and without an instance
\* nothing is enabled, listened to or recorded.
C19_ConstructorThrows ==
  /\ lastOp = "constructUnwritable" => (~instance /\ reporter = "none")
  /\ ~instance => /\ reporter = "none"
                  /\ ~enabled
                  /\ listeners = {}
                  /\ Len(Metrics) = 0

\* the construction of the singleton has just failed on its directory
C19_Witness ==
  /\ lastOp = "constructUnwritable"
  /\ ~instance

\* C20: apart from file-system failures, getSummary() completes without
\* throwing in every reachable state and with either built-in reporter:
\* no call of it, explicit or from the close listener, ends in a TypeError.
C20_GetSummaryNeverThrows ==
  lastOp \notin {"getSummaryTypeError", "closeTypeError"}

\* the request whose request event the step handled
Started == inflight' \ inflight

\* the request whose response event the step handled
Answered == inflight \ inflight'

\* C21: a record is written by one response event only: once a response has
\* completed it, no later request or response event changes its endTime,
\* duration or status (a later response for the same url and method does
\* not recompute it) while the collection is not reset.
C21_MutatedOnce ==
  [][IsPageEvent(lastOp') =>
       \A i \in Responded(Metrics) :
         /\ i <= Len(arrays'[metrics'])
         /\ arrays'[metrics'][i] = Metrics[i]
    ]_vars

\* C22: a handled response event completes the record its own request
\* created, also when another request with the same url and method is in
\* flight or occurred in the same test, and writes no other record.
C22_OwnRecord ==
  [][lastOp' \in {"responseMatched", "responseUnmatched"} =>
       \A r \in Answered : \A i \in 1..Len(Metrics) :
         IF Metrics[i].id = r.id
         THEN arrays'[metrics'][i].status # 0
         ELSE arrays'[metrics'][i] = Metrics[i]
    ]_vars

\* C23: a request-start event for a url and method that already have a
\* record is ignored: no record is added and the records are unchanged.
C23_DuplicateStartIgnored ==
  [][lastOp' = "request" =>
       \A r \in Started :
         ~NoRecordFor(Metrics, r) => arrays'[metrics'] = Metrics
    ]_vars

\* C24: no record ever has a negative duration, also when the response
\* reports an end time earlier than the start time.
C24_NoNegativeDuration ==
  \A i \in 1..Len(Metrics) : Metrics[i].duration >= 0

\* C25: for every record, duration > 0 exactly when endTime > 0, and both
\* exactly when a response event has been applied to the record, so that
\* getSummary counts every record with an observed response as completed.
C25_CompletedIffResponded ==
  /\ \A i \in 1..Len(Metrics) :
       /\ Metrics[i].duration > 0 <=> Metrics[i].endTime > 0
       /\ Metrics[i].endTime > 0 <=> Metrics[i].status # 0
  /\ Completed(Metrics) = Responded(Metrics)

C27_GetSummaryPure ==
  [][lastOp' \in {"getSummary", "getSummaryAgain"} =>
       UNCHANGED <<metrics, arrays, reporterTestName, currentMetrics,
                   sessionDir, sessionMetrics, sessionSummary>>
    ]_vars

\* the test names of a session rollup, in the order of its entries
NameOrder(sm) == [i \in 1..Len(sm) |-> sm[i].testName]

\* the testResults entries that correspond to the entries of a rollup
ResultsOf(sm) ==
  [i \in 1..Len(sm) |-> [testName |-> sm[i].testName, summary |-> sm[i].summary]]

\* C28 as stated: testResults holds one entry per stored test name, and
\* the entry of the test that completed last, a name that completed before
\* included, comes last and holds its latest summary.
C28_OrderByLatest ==
  [][stored' # "none" =>
       LET tr == sessionSummary'[1].testResults IN
       /\ Len(tr) = Cardinality(StoredNames(sessionMetrics'))
       /\ tr[Len(tr)].testName = reporterTestName
       /\ tr[Len(tr)].summary = summary'[1]
    ]_vars

\* C28: testResults holds one entry per stored test name, in the order in
\* which the names were first stored; when a name completes again its entry
\* holds the latest summary and keeps its place.
C28_OrderByFirst ==
  [][stored' # "none" =>
       LET tr == sessionSummary'[1].testResults
           n == reporterTestName IN
       /\ tr = ResultsOf(sessionMetrics')
       /\ Len(tr) = Cardinality(StoredNames(sessionMetrics'))
       /\ NameOrder(sessionMetrics') =
            IF n \in StoredNames(sessionMetrics)
            THEN NameOrder(sessionMetrics)
            ELSE Append(NameOrder(sessionMetrics), n)
       /\ \A i \in 1..Len(tr) : tr[i].testName = n => tr[i].summary = summary'[1]
    ]_vars

\* a name completed again, with another summary, after a second name had
\* completed: its entry is the first of two
C28_Witness ==
  /\ stored = "replaced"
  /\ Len(sessionMetrics) = 2
  /\ sessionMetrics[1].testName = reporterTestName
  /\ sessionSummary # <<>>
  /\ sessionSummary[1].testResults[1].summary = summary[1]

\* C29: every entry of the session rollup is self-consistent: the summary
\* stored for a test name has totalRequests equal to the number of records
\* stored with it, and the entry a step stores holds the records of the
\* collection its summary was computed from.
C29_EntryConsistent ==
  [][/\ \A i \in 1..Len(sessionMetrics') :
          Len(sessionMetrics'[i].metrics) = sessionMetrics'[i].summary.totalRequests
     /\ stored' # "none" =>
          \E i \in 1..Len(sessionMetrics') :
            /\ sessionMetrics'[i].testName = reporterTestName
            /\ sessionMetrics'[i].metrics = RecordRefs(Metrics)
            /\ sessionMetrics'[i].summary = summary'[1]
            /\ currentMetrics = metrics
    ]_vars

\* two entries are stored, the second one after the collection was cleared
\* and a new request was recorded and answered
C29_Witness ==
  /\ Len(sessionMetrics) = 2
  /\ sessionMetrics[1].metrics = <<1>>
  /\ sessionMetrics[2].metrics = <<2>>
  /\ sessionMetrics[2].summary.totalRequests = 1

\* C30: when the JSON reporter's current metrics are empty, onTestComplete
\* does nothing: no session directory is created and the session rollup
\* and summary stay as they are, so the test is not counted, also when
\* getSummary() returned totalRequests > 0.
C30_EmptyIsNoOp ==
  [][(lastOp' \in {"getSummary", "getSummaryAgain"}
        /\ reporter = "JsonReporter" /\ Len(CurrentMetrics) = 0) =>
       /\ UNCHANGED <<sessionDir, sessionMetrics, sessionSummary>>
       /\ stored' = "none"
    ]_vars

\* getSummary() returned a summary with requests while the reporter had
\* never been handed a collection: nothing is stored
C30_Witness ==
  /\ lastOp \in {"getSummary", "getSummaryAgain"}
  /\ summary # <<>>
  /\ summary[1].totalRequests > 0
  /\ currentMetrics = ReporterArray
  /\ Len(CurrentMetrics) = 0
  /\ ~sessionDir
  /\ sessionMetrics = <<>>
  /\ sessionSummary = <<>>

====
